---- MODULE Spec2Model ----
(***************************************************************************)
(* Authentication and credential verification of the SIMS backend:         *)
(* password login, access/refresh tokens, password reset tokens and the    *)
(* WebAuthn registration / authentication ceremonies                       *)
(* (backend/app/api/v1/auth.py, backend/app/api/deps.py,                   *)
(* backend/app/core/security.py).                                          *)
(*                                                                         *)
(* Time is counted in ticks, fractions of a second.  A JWT is a record of  *)
(* header, payload and signature; the signature is the pair of signing key *)
(* and payload, so that verification recomputes it.  A bcrypt digest is a  *)
(* tagged value of the password it was computed from.                      *)
(***************************************************************************)
EXTENDS Integers, Sequences, FiniteSets, TLC

VARIABLES
    users,          \* rows of the admins, teachers, students and parents tables
    creds,          \* rows of the webauthn_credentials table
    challenges,     \* the module-level dict webauthn_challenges
    now,            \* the wall clock, in ticks
    nextJti,        \* number of uuid4 values drawn for jti so far
    nextChallenge,  \* number of random challenges generated so far
    held,           \* the token a caller carries from an earlier response, if any
    proc,           \* the requests to /webauthn/login/verify in flight
    lastIssued,     \* history: the challenge most recently held per key
    accepted,       \* history: how often each assertion was answered with tokens
    takes,          \* history: what each take on the key issued last has got
    books,          \* rows of the books table, in order of creation
    records,        \* rows of the borrow_records table, in order of creation
    leaves,         \* rows of the leaves table, in order of creation
    resp            \* the last request handled and its response

vars == <<users, creds, challenges, now, nextJti, nextChallenge, held, proc,
          lastIssued, accepted, takes, books, records, leaves, resp>>

(***************************************************************************)
(* Bounds of the model.                                                    *)
(***************************************************************************)
MaxJti == 4
MaxChallenge == 2
MaxTime == 16
MaxTakes == 2
TicksPerSecond == 2
MaxBooks == 1
MaxBorrows == 2
MaxLeaves == 2

(***************************************************************************)
(* Program constants.                                                      *)
(***************************************************************************)
ACCESS_TOKEN_EXPIRE_MINUTES == 30
REFRESH_TOKEN_EXPIRE_DAYS == 7
RESET_TOKEN_EXPIRE_MINUTES == 15
MinutesPerDay == 1440
SecondsPerMinute == 60
ALGORITHM == "HS256"
SECRET_KEY == "testsecret"
RP_ID == "localhost"
ORIGIN == "http://localhost:5173"

\* the clock counts ticks, fractions of a second
Second == TicksPerSecond
Minute == SecondsPerMinute * Second
Day == MinutesPerDay * Minute

None == "<None>"
Roles == {"admin", "teacher", "student", "parent"}
NoUser == [kind |-> None]

(***************************************************************************)
(* core/security.py: password hashing.                                     *)
(***************************************************************************)
get_password_hash(password) == <<"bcrypt", password>>

verify_password(plain_password, hashed_password) ==
    hashed_password = get_password_hash(plain_password)

(***************************************************************************)
(* jose.jwt as used by the code: HS256 over the claims with one key.  A     *)
(* datetime becomes a NumericDate, whole seconds by                        *)
(* timegm(utctimetuple()); the clock is read the same way at decoding.     *)
(***************************************************************************)
HS256(payload, key) == <<key, payload>>

NumericDate(t) == t - (t % TicksPerSecond)

jwt_encode(claims, key) ==
    LET payload == [claims EXCEPT !.exp = NumericDate(@)]
    IN [header |-> [alg |-> ALGORITHM], payload |-> payload, sig |-> HS256(payload, key)]

JwtOk(payload) == [ok |-> TRUE, payload |-> payload]
JwtErr(e) == [ok |-> FALSE, error |-> e]

jwt_decode_NoExp(token, key, t) ==
    IF token.header.alg # ALGORITHM THEN JwtErr("JWTError")
    ELSE IF token.sig # HS256(token.payload, key) THEN JwtErr("JWTError")
    ELSE JwtOk(token.payload)

jwt_decode(token, key, t) ==
    IF token.header.alg # ALGORITHM THEN JwtErr("JWTError")
    ELSE IF token.sig # HS256(token.payload, key) THEN JwtErr("JWTError")
    ELSE IF token.payload.exp < NumericDate(t) THEN JwtErr("ExpiredSignatureError")
    ELSE JwtOk(token.payload)

(***************************************************************************)
(* core/security.py: token construction.  A claim the code leaves out is   *)
(* None in the payload.                                                    *)
(***************************************************************************)
Falsy(s) == s = None \/ s = ""

create_access_token_NoRole(subject, expires_delta, role, full_name, t, jti) ==
    LET expire == IF expires_delta # 0 THEN t + expires_delta * Minute
                  ELSE t + ACCESS_TOKEN_EXPIRE_MINUTES * Minute
        to_encode == [exp |-> expire, sub |-> subject, type |-> "access", jti |-> jti,
                      role |-> None,
                      full_name |-> IF Falsy(full_name) THEN None ELSE full_name]
    IN jwt_encode(to_encode, SECRET_KEY)

create_access_token_SameJti(subject, expires_delta, role, full_name, t, jti) ==
    LET expire == IF expires_delta # 0 THEN t + expires_delta * Minute
                  ELSE t + ACCESS_TOKEN_EXPIRE_MINUTES * Minute
        to_encode == [exp |-> expire, sub |-> subject, type |-> "access", jti |-> 0,
                      role |-> IF Falsy(role) THEN None ELSE role,
                      full_name |-> IF Falsy(full_name) THEN None ELSE full_name]
    IN jwt_encode(to_encode, SECRET_KEY)

create_access_token(subject, expires_delta, role, full_name, t, jti) ==
    LET expire == IF expires_delta # 0 THEN t + expires_delta * Minute
                  ELSE t + ACCESS_TOKEN_EXPIRE_MINUTES * Minute
        to_encode == [exp |-> expire, sub |-> subject, type |-> "access", jti |-> jti,
                      role |-> IF Falsy(role) THEN None ELSE role,
                      full_name |-> IF Falsy(full_name) THEN None ELSE full_name]
    IN jwt_encode(to_encode, SECRET_KEY)

create_refresh_token(subject, role, t, jti) ==
    LET expire == t + REFRESH_TOKEN_EXPIRE_DAYS * Day
        to_encode == [exp |-> expire, sub |-> subject, type |-> "refresh", jti |-> jti,
                      role |-> IF Falsy(role) THEN None ELSE role,
                      full_name |-> None]
    IN jwt_encode(to_encode, SECRET_KEY)

(***************************************************************************)
(* The four per-kind lookups and the fixed-order fallthrough by email.     *)
(***************************************************************************)
Table(us, kind) == {u \in us : u.kind = kind}

First(S) == IF S = {} THEN NoUser ELSE CHOOSE u \in S : TRUE

get_by_email(us, kind, email) == First({u \in Table(us, kind) : u.email = email})

get_by_id(us, kind, id) == First({u \in Table(us, kind) : u.id = id})

RoleOrder == <<"admin", "teacher", "student", "parent">>

RoleOrder_Reversed == <<"parent", "student", "teacher", "admin">>

RECURSIVE Fallthrough(_, _, _, _)
Fallthrough(us, email, order, i) ==
    LET user == get_by_email(us, order[i], email)
    IN IF user # NoUser \/ i = Len(order) THEN [user |-> user, role |-> order[i]]
       ELSE Fallthrough(us, email, order, i + 1)

by_identifier_Reversed(us, email) == Fallthrough(us, email, RoleOrder_Reversed, 1)

by_identifier(us, email) == Fallthrough(us, email, RoleOrder, 1)

by_role_and_id_AnyKind(us, role, sub) == First({u \in us : u.id = sub})

by_role_and_id(us, role, sub) ==
    IF role \in Roles THEN get_by_id(us, role, sub) ELSE NoUser

(***************************************************************************)
(* The rows the tables start with: one identifier held by a principal of   *)
(* every kind, and a second identifier held by one student.                *)
(***************************************************************************)
Row(kind, id, email, password, full_name, is_active) ==
    [kind |-> kind, id |-> id, email |-> email,
     hashed_password |-> get_password_hash(password),
     full_name |-> full_name, is_active |-> is_active]

InitUsers ==
    { Row("admin", "a1", "x@y.com", "pw1", "Ann", TRUE),
      Row("teacher", "t1", "x@y.com", "pw2", "Tom", TRUE),
      Row("student", "s1", "x@y.com", "pw1", "", TRUE),
      Row("parent", "p1", "x@y.com", "pw2", None, TRUE),
      Row("student", "s2", "alice@example.com", "pw1", "Alice", TRUE) }

Emails == {"x@y.com", "alice@example.com", "nobody@example.com"}
Passwords == {"pw1", "pw2"}
Procs == {1, 2}
Idle == [pc |-> "idle"]

HTTPException(status_code, detail) == [status |-> status_code, detail |-> detail]

(***************************************************************************)
(* crud_*.update_* and crud_*.delete_*: an administrator changes the       *)
(* active flag of a row, or deletes it.                                    *)
(***************************************************************************)
update_user(us, u, is_active) ==
    (us \ {u}) \cup {[u EXCEPT !.is_active = is_active]}

delete_user(us, u) == us \ {u}

UpdateUser(u, is_active) ==
    /\ u \in users
    /\ u.is_active # is_active
    /\ users' = update_user(users, u, is_active)
    /\ resp' = [op |-> "update_user", res |-> [id |-> u.id]]
    /\ UNCHANGED <<creds, challenges, now, nextJti, nextChallenge, held, proc,
                   lastIssued, accepted, takes,
                   books, records, leaves>>

DeleteUser(u) ==
    /\ u \in users
    /\ users' = delete_user(users, u)
    /\ resp' = [op |-> "delete_user", res |-> [id |-> u.id]]
    /\ UNCHANGED <<creds, challenges, now, nextJti, nextChallenge, held, proc,
                   lastIssued, accepted, takes,
                   books, records, leaves>>

Tokens(res) ==
    IF "status" \notin DOMAIN res \/ res.status # 200 THEN {}
    ELSE IF "token" \in DOMAIN res THEN {res.token}
    ELSE IF "access_token" \in DOMAIN res THEN {res.access_token, res.refresh_token}
    ELSE {}

(***************************************************************************)
(* POST /auth/login                                                        *)
(***************************************************************************)
login_access_token_Distinguish(us, email, password, t, jti) ==
    LET found == by_identifier(us, email)
        user == found.user
        role == found.role
    IN IF user = NoUser THEN HTTPException(404, "User not found")
       ELSE IF ~verify_password(password, user.hashed_password)
       THEN HTTPException(400, "Incorrect email or password")
       ELSE IF ~user.is_active THEN HTTPException(400, "Inactive user")
       ELSE [status |-> 200,
             access_token |-> create_access_token(user.id, ACCESS_TOKEN_EXPIRE_MINUTES,
                                                  role, user.full_name, t, jti),
             refresh_token |-> create_refresh_token(user.id, role, t, jti + 1),
             token_type |-> "bearer"]

login_access_token_ActiveFirst(us, email, password, t, jti) ==
    LET found == by_identifier(us, email)
        user == found.user
        role == found.role
    IN IF user = NoUser THEN HTTPException(400, "Incorrect email or password")
       ELSE IF ~user.is_active THEN HTTPException(400, "Inactive user")
       ELSE IF ~verify_password(password, user.hashed_password)
       THEN HTTPException(400, "Incorrect email or password")
       ELSE [status |-> 200,
             access_token |-> create_access_token(user.id, ACCESS_TOKEN_EXPIRE_MINUTES,
                                                  role, user.full_name, t, jti),
             refresh_token |-> create_refresh_token(user.id, role, t, jti + 1),
             token_type |-> "bearer"]

login_access_token_FallThrough(us, email, password, t, jti) ==
    LET found == by_identifier({u \in us : verify_password(password, u.hashed_password)},
                               email)
        user == found.user
        role == found.role
    IN IF user = NoUser
       THEN HTTPException(400, "Incorrect email or password")
       ELSE IF ~user.is_active THEN HTTPException(400, "Inactive user")
       ELSE [status |-> 200,
             access_token |-> create_access_token(user.id, ACCESS_TOKEN_EXPIRE_MINUTES,
                                                  role, user.full_name, t, jti),
             refresh_token |-> create_refresh_token(user.id, role, t, jti + 1),
             token_type |-> "bearer"]

login_access_token(us, email, password, t, jti) ==
    LET found == by_identifier(us, email)
        user == found.user
        role == found.role
    IN IF user = NoUser \/ ~verify_password(password, user.hashed_password)
       THEN HTTPException(400, "Incorrect email or password")
       ELSE IF ~user.is_active THEN HTTPException(400, "Inactive user")
       ELSE [status |-> 200,
             access_token |-> create_access_token(user.id, ACCESS_TOKEN_EXPIRE_MINUTES,
                                                  role, user.full_name, t, jti),
             refresh_token |-> create_refresh_token(user.id, role, t, jti + 1),
             token_type |-> "bearer"]

Login(email, password) ==
    LET res == login_access_token(users, email, password, now, nextJti)
    IN /\ res.status = 200 => nextJti + 2 <= MaxJti
       /\ resp' = [op |-> "login", email |-> email, password |-> password, res |-> res]
       /\ nextJti' = IF res.status = 200 THEN nextJti + 2 ELSE nextJti
       /\ UNCHANGED <<users, creds, challenges, now, nextChallenge, held, proc,
                      lastIssued, accepted, takes,
                      books, records, leaves>>

(***************************************************************************)
(* POST /auth/refresh                                                      *)
(***************************************************************************)
refresh_token_NoTypeCheck(us, token, t, jti) ==
    LET d == jwt_decode(token, SECRET_KEY, t)
    IN IF ~d.ok THEN HTTPException(400, "Invalid or expired refresh token")
       ELSE LET user == by_role_and_id(us, d.payload.role, d.payload.sub)
            IN IF user = NoUser THEN HTTPException(404, "User not found")
               ELSE IF ~user.is_active THEN HTTPException(400, "Inactive user")
               ELSE [status |-> 200,
                     access_token |-> create_access_token(user.id, ACCESS_TOKEN_EXPIRE_MINUTES,
                                          d.payload.role, user.full_name, t, jti),
                     refresh_token |-> token,
                     token_type |-> "bearer"]

refresh_token_SkipActive(us, token, t, jti) ==
    LET d == jwt_decode(token, SECRET_KEY, t)
    IN IF ~d.ok THEN HTTPException(400, "Invalid or expired refresh token")
       ELSE IF d.payload.type # "refresh" THEN HTTPException(400, "Invalid token type")
       ELSE LET user == by_role_and_id(us, d.payload.role, d.payload.sub)
            IN IF user = NoUser THEN HTTPException(404, "User not found")
               ELSE [status |-> 200,
                     access_token |-> create_access_token(user.id, ACCESS_TOKEN_EXPIRE_MINUTES,
                                          d.payload.role, user.full_name, t, jti),
                     refresh_token |-> token,
                     token_type |-> "bearer"]

refresh_token_Rotate(us, token, t, jti) ==
    LET d == jwt_decode(token, SECRET_KEY, t)
    IN IF ~d.ok THEN HTTPException(400, "Invalid or expired refresh token")
       ELSE IF d.payload.type # "refresh" THEN HTTPException(400, "Invalid token type")
       ELSE LET user == by_role_and_id(us, d.payload.role, d.payload.sub)
            IN IF user = NoUser THEN HTTPException(404, "User not found")
               ELSE IF ~user.is_active THEN HTTPException(400, "Inactive user")
               ELSE [status |-> 200,
                     access_token |-> create_access_token(user.id, ACCESS_TOKEN_EXPIRE_MINUTES,
                                          d.payload.role, user.full_name, t, jti),
                     refresh_token |-> create_refresh_token(user.id, d.payload.role, t, jti),
                     token_type |-> "bearer"]

refresh_token(us, token, t, jti) ==
    LET d == jwt_decode(token, SECRET_KEY, t)
    IN IF ~d.ok THEN HTTPException(400, "Invalid or expired refresh token")
       ELSE IF d.payload.type # "refresh" THEN HTTPException(400, "Invalid token type")
       ELSE LET user == by_role_and_id(us, d.payload.role, d.payload.sub)
            IN IF user = NoUser THEN HTTPException(404, "User not found")
               ELSE IF ~user.is_active THEN HTTPException(400, "Inactive user")
               ELSE [status |-> 200,
                     access_token |-> create_access_token(user.id, ACCESS_TOKEN_EXPIRE_MINUTES,
                                          d.payload.role, user.full_name, t, jti),
                     refresh_token |-> token,
                     token_type |-> "bearer"]

(***************************************************************************)
(* Tokens a caller can present: the ones kept from responses, and forgeries *)
(* made from them (signed with another key, a claim altered under the old  *)
(* signature, the algorithm header replaced).                              *)
(***************************************************************************)
Resign(token) == [token EXCEPT !.sig = HS256(token.payload, "attacker-key")]
Retype(token) ==
    [token EXCEPT !.payload.type = IF @ = "refresh" THEN "access" ELSE "refresh"]
AlgNone(token) == [token EXCEPT !.header.alg = "none"]

Kept == {w.tok : w \in held}
Presentable == Kept \cup {Resign(k) : k \in Kept} \cup {Retype(k) : k \in Kept}
                    \cup {AlgNone(k) : k \in Kept}

Refresh(token) ==
    LET res == refresh_token(users, token, now, nextJti)
    IN /\ res.status = 200 => nextJti + 1 <= MaxJti
       /\ resp' = [op |-> "refresh", token |-> token, res |-> res]
       /\ nextJti' = IF res.status = 200 THEN nextJti + 1 ELSE nextJti
       /\ UNCHANGED <<users, creds, challenges, now, nextChallenge, held, proc,
                      lastIssued, accepted, takes,
                      books, records, leaves>>

(***************************************************************************)
(* POST /auth/forgot-password                                              *)
(***************************************************************************)
forgot_password(us, email, t, jti) ==
    LET found == by_identifier(us, email)
        user == found.user
        role == found.role
    IN IF user = NoUser THEN HTTPException(404, "User with this email does not exist")
       ELSE [status |-> 200, msg |-> "Password reset token generated",
             token |-> create_access_token(user.id, RESET_TOKEN_EXPIRE_MINUTES,
                                           role, None, t, jti)]

ForgotPassword(email) ==
    LET res == forgot_password(users, email, now, nextJti)
    IN /\ res.status = 200 => nextJti + 1 <= MaxJti
       /\ resp' = [op |-> "forgot", email |-> email, res |-> res]
       /\ nextJti' = IF res.status = 200 THEN nextJti + 1 ELSE nextJti
       /\ UNCHANGED <<users, creds, challenges, now, nextChallenge, held, proc,
                      lastIssued, accepted, takes,
                      books, records, leaves>>

(***************************************************************************)
(* POST /auth/reset-password: the response and the tables after the commit *)
(***************************************************************************)
reset_password_NoExpiry(us, token, new_password, t) ==
    LET d == jwt_decode_NoExp(token, SECRET_KEY, t)
    IN IF ~d.ok THEN [res |-> HTTPException(400, "Invalid or expired token"), users |-> us]
       ELSE LET user == by_role_and_id(us, d.payload.role, d.payload.sub)
            IN IF user = NoUser
               THEN [res |-> HTTPException(404, "User not found"), users |-> us]
               ELSE [res |-> [status |-> 200, msg |-> "Password updated successfully"],
                     users |-> (us \ {user}) \cup
                         {[user EXCEPT !.hashed_password = get_password_hash(new_password)]}]

reset_password_NoCommit(us, token, new_password, t) ==
    LET d == jwt_decode(token, SECRET_KEY, t)
    IN IF ~d.ok THEN [res |-> HTTPException(400, "Invalid or expired token"), users |-> us]
       ELSE LET user == by_role_and_id(us, d.payload.role, d.payload.sub)
            IN IF user = NoUser
               THEN [res |-> HTTPException(404, "User not found"), users |-> us]
               ELSE [res |-> [status |-> 200, msg |-> "Password updated successfully"],
                     users |-> us]

reset_password(us, token, new_password, t) ==
    LET d == jwt_decode(token, SECRET_KEY, t)
    IN IF ~d.ok THEN [res |-> HTTPException(400, "Invalid or expired token"), users |-> us]
       ELSE LET user == by_role_and_id(us, d.payload.role, d.payload.sub)
            IN IF user = NoUser
               THEN [res |-> HTTPException(404, "User not found"), users |-> us]
               ELSE [res |-> [status |-> 200, msg |-> "Password updated successfully"],
                     users |-> (us \ {user}) \cup
                         {[user EXCEPT !.hashed_password = get_password_hash(new_password)]}]

\* the caller notes on a kept token the time a reset with it last succeeded
NoteUse(w, token, res, t) ==
    IF w.tok = token /\ res.status = 200 THEN [w EXCEPT !.lastOk = t] ELSE w

ResetPassword(token, new_password) ==
    LET out == reset_password(users, token, new_password, now)
    IN /\ users' = out.users
       /\ resp' = [op |-> "reset", token |-> token, new_password |-> new_password,
                   res |-> out.res]
       /\ held' = {NoteUse(w, token, out.res, now) : w \in held}
       /\ UNCHANGED <<creds, challenges, now, nextJti, nextChallenge, proc,
                      lastIssued, accepted, takes,
                      books, records, leaves>>

(***************************************************************************)
(* The tokens of a response, as the caller receives them, and the passing  *)
(* of time.                                                                *)
(***************************************************************************)
\* the caller keeps a token of the last response, in place of the one carried,
\* and notes the tokens that came with it
Keep(token) ==
    /\ token \in Tokens(resp.res)
    /\ token \notin Kept
    /\ held' = {[tok |-> token, origin |-> resp.op, at |-> now, lastOk |-> -1,
                 with |-> Tokens(resp.res) \ {token}]}
    /\ resp' = [op |-> "keep", res |-> [kept |-> token]]
    /\ UNCHANGED <<users, creds, challenges, now, nextJti, nextChallenge, proc,
                   lastIssued, accepted, takes,
                   books, records, leaves>>

Waits == {5 * Minute, 6 * Minute}

Tick(d) ==
    /\ now' = now + d
    /\ resp' = [op |-> "tick", res |-> [waited |-> d]]
    /\ UNCHANGED <<users, creds, challenges, nextJti, nextChallenge, held, proc,
                   lastIssued, accepted, takes,
                   books, records, leaves>>

(***************************************************************************)
(* api/deps.py: the principal of a bearer token.                           *)
(***************************************************************************)
get_current_user(us, token, t) ==
    LET d == jwt_decode(token, SECRET_KEY, t)
    IN IF ~d.ok THEN HTTPException(401, "Could not validate credentials")
       ELSE LET user == by_role_and_id(us, d.payload.role, d.payload.sub)
            IN IF user = NoUser THEN HTTPException(404, "User not found")
               ELSE [status |-> 200, user |-> user]

get_current_active_user(us, token, t) ==
    LET cur == get_current_user(us, token, t)
    IN IF cur.status # 200 THEN cur
       ELSE IF ~cur.user.is_active THEN HTTPException(400, "Inactive user")
       ELSE cur

\* isinstance(current_user, Admin) and isinstance(current_user, (Admin, Teacher));
\* both guards depend on get_current_user
get_current_active_superuser(us, token, t) ==
    LET cur == get_current_user(us, token, t)
    IN IF cur.status # 200 THEN cur
       ELSE IF cur.user.kind # "admin"
       THEN HTTPException(400, "The user doesn't have enough privileges")
       ELSE cur

get_current_active_staff(us, token, t) ==
    LET cur == get_current_user(us, token, t)
    IN IF cur.status # 200 THEN cur
       ELSE IF cur.user.kind \notin {"admin", "teacher"}
       THEN HTTPException(400, "The user doesn't have enough privileges")
       ELSE cur

\* an endpoint declared with Depends(guard): the guard runs first and the
\* endpoint is entered with the principal the guard returns
Guards == {"get_current_user", "get_current_active_user",
           "get_current_active_superuser", "get_current_active_staff"}

Depends(guard, us, token, t) ==
    CASE guard = "get_current_user" -> get_current_user(us, token, t)
      [] guard = "get_current_active_user" -> get_current_active_user(us, token, t)
      [] guard = "get_current_active_superuser" -> get_current_active_superuser(us, token, t)
      [] guard = "get_current_active_staff" -> get_current_active_staff(us, token, t)

Protected(guard, token) ==
    /\ resp' = [op |-> "protected", guard |-> guard, token |-> token,
                res |-> Depends(guard, users, token, now)]
    /\ UNCHANGED <<users, creds, challenges, now, nextJti, nextChallenge, held, proc,
                   lastIssued, accepted, takes,
                   books, records, leaves>>

\* the access token a principal holds from a login made before the first state
SessionOf(u) ==
    create_access_token(u.id, ACCESS_TOKEN_EXPIRE_MINUTES, u.kind, u.full_name, 0, -1)

Bearers(us) == {SessionOf(u) : u \in us}

(***************************************************************************)
(* The dict webauthn_challenges: assignment, and pop(key, None) with 0 for *)
(* None.                                                                   *)
(***************************************************************************)
Put_KeepFirst(store, key, value) ==
    [k \in DOMAIN store \cup {key} |-> IF k \in DOMAIN store THEN store[k] ELSE value]

Put(store, key, value) ==
    [k \in DOMAIN store \cup {key} |-> IF k = key THEN value ELSE store[k]]

Peek(store, key) == IF key \in DOMAIN store THEN store[key] ELSE 0

Pop_Keep(store, key) == store

Pop(store, key) == [k \in DOMAIN store \ {key} |-> store[k]]

(***************************************************************************)
(* Authenticators, and what they send.  A registration response carries    *)
(* the new credential id and public key; an assertion is signed with a     *)
(* private key over the challenge, the origin, the RP id and the counter.  *)
(***************************************************************************)
Authenticators == {[key |-> "k1", id |-> "c1"], [key |-> "k2", id |-> "c2"]}
PublicKey(key) == <<"public", key>>
Sites == {[origin |-> ORIGIN, rp_id |-> RP_ID],
          [origin |-> "https://evil.example", rp_id |-> RP_ID],
          [origin |-> ORIGIN, rp_id |-> "evil.example"]}

\* the signature counters an authenticator sends
Counts == {0, 1}

Home == [origin |-> ORIGIN, rp_id |-> RP_ID]

\* every response made on the site itself; from another origin or for another
\* RP id, the responses that are in order otherwise
Attestations ==
    {[id |-> a.id, public_key |-> PublicKey(a.key), challenge |-> c,
      origin |-> s.origin, rp_id |-> s.rp_id, sign_count |-> n] :
        a \in Authenticators, c \in 1..nextChallenge, n \in Counts,
        s \in {Home}}
    \cup
    {[id |-> a.id, public_key |-> PublicKey(a.key), challenge |-> nextChallenge,
      origin |-> s.origin, rp_id |-> s.rp_id, sign_count |-> 0] :
        a \in Authenticators, s \in Sites \ {Home}}

Assertions ==
    {[id |-> a.id, signedBy |-> b.key, challenge |-> c,
      origin |-> s.origin, rp_id |-> s.rp_id, sign_count |-> n] :
        a \in Authenticators, b \in Authenticators, c \in 1..nextChallenge,
        n \in Counts, s \in {Home}}
    \cup
    {[id |-> a.id, signedBy |-> a.key, challenge |-> nextChallenge,
      origin |-> s.origin, rp_id |-> s.rp_id, sign_count |-> 1] :
        a \in Authenticators, s \in Sites \ {Home}}

Verified(fields) == [ok |-> TRUE] @@ fields
Invalid(msg) == [ok |-> FALSE, error |-> msg]

\* webauthn.verify_registration_response
verify_registration_response(credential, expected_challenge, expected_origin, expected_rp_id) ==
    IF credential.challenge # expected_challenge
    THEN Invalid("Client data challenge was not expected challenge")
    ELSE IF credential.origin # expected_origin
    THEN Invalid("Unexpected client data origin")
    ELSE IF credential.rp_id # expected_rp_id
    THEN Invalid("Unexpected RP ID hash")
    ELSE Verified([credential_id |-> credential.id,
                   credential_public_key |-> credential.public_key,
                   sign_count |-> credential.sign_count])

\* webauthn.verify_authentication_response: the counter is compared only when
\* the stored or the new one is nonzero, and the signature is checked last
verify_authentication_response(credential, expected_challenge, expected_origin, expected_rp_id, credential_public_key, credential_current_sign_count) ==
    IF credential.challenge # expected_challenge
    THEN Invalid("Client data challenge was not expected challenge")
    ELSE IF credential.origin # expected_origin
    THEN Invalid("Unexpected client data origin")
    ELSE IF credential.rp_id # expected_rp_id
    THEN Invalid("Unexpected RP ID hash")
    ELSE IF /\ (credential_current_sign_count > 0 \/ credential.sign_count > 0)
            /\ credential.sign_count <= credential_current_sign_count
    THEN Invalid("Response sign count was not greater than current count")
    ELSE IF PublicKey(credential.signedBy) # credential_public_key
    THEN Invalid("Could not verify authentication signature")
    ELSE Verified([new_sign_count |-> credential.sign_count])

(***************************************************************************)
(* POST /auth/webauthn/register/generate and /register/verify              *)
(***************************************************************************)
CredIdsOf(cs, user_id) == {c.credential_id : c \in {c \in cs : c.user_id = user_id}}

NoCred == [credential_id |-> None]

cred_by_id(cs, credential_id) ==
    IF \E c \in cs : c.credential_id = credential_id
    THEN CHOOSE c \in cs : c.credential_id = credential_id
    ELSE NoCred

webauthn_register_generate(us, cs, store, token, t, challenge) ==
    LET cur == get_current_active_user(us, token, t)
    IN IF cur.status # 200 THEN [res |-> cur, challenges |-> store]
       ELSE [res |-> [status |-> 200, challenge |-> challenge,
                      excludeCredentials |-> CredIdsOf(cs, cur.user.id)],
             challenges |-> Put(store, cur.user.id, challenge)]

webauthn_register_verify(us, cs, store, token, credential, t) ==
    LET cur == get_current_active_user(us, token, t)
    IN IF cur.status # 200 THEN [res |-> cur, challenges |-> store, creds |-> cs]
       ELSE
       LET expected_challenge == Peek(store, cur.user.id)
           popped == Pop(store, cur.user.id)
           verification == verify_registration_response(credential, expected_challenge,
                                                        ORIGIN, RP_ID)
       IN IF expected_challenge = 0
          THEN [res |-> HTTPException(400, "No active registration session found"),
                challenges |-> popped, creds |-> cs]
          ELSE IF ~verification.ok
          THEN [res |-> HTTPException(400, "WebAuthn registration failed: "
                                            \o verification.error),
                challenges |-> popped, creds |-> cs]
          ELSE IF cred_by_id(cs, verification.credential_id) # NoCred
          THEN [res |-> HTTPException(500, "IntegrityError"),
                challenges |-> popped, creds |-> cs]
          ELSE [res |-> [status |-> 200, msg |-> "Passkey registered successfully!"],
                challenges |-> popped,
                creds |-> cs \cup {[user_id |-> cur.user.id,
                                    user_role |-> cur.user.kind,
                                    credential_id |-> verification.credential_id,
                                    public_key |-> verification.credential_public_key,
                                    sign_count |-> verification.sign_count]}]

\* history: what the takes on the key issued last have returned since, and
\* the challenge still live for the key that the issue has replaced (0: none)
NoteIssue(key) == [key |-> key, got |-> <<>>, over |-> Peek(challenges, key)]
NoteTake(key, value) ==
    IF takes.key = key /\ Len(takes.got) < MaxTakes
    THEN [takes EXCEPT !.got = Append(@, value)]
    ELSE takes

RegisterGenerate(token) ==
    LET out == webauthn_register_generate(users, creds, challenges, token, now,
                                          nextChallenge + 1)
        key == get_current_user(users, token, now).user.id
    IN /\ out.res.status = 200 => nextChallenge + 1 <= MaxChallenge
       /\ challenges' = out.challenges
       /\ resp' = [op |-> "register_generate", token |-> token, res |-> out.res]
       /\ IF out.res.status = 200
          THEN /\ nextChallenge' = nextChallenge + 1
               /\ lastIssued' = Put(lastIssued, key, nextChallenge + 1)
               /\ takes' = NoteIssue(key)
          ELSE UNCHANGED <<nextChallenge, lastIssued, takes>>
       /\ UNCHANGED <<users, creds, now, nextJti, held, proc, accepted,
                      books, records, leaves>>

RegisterVerify(token, credential) ==
    LET out == webauthn_register_verify(users, creds, challenges, token, credential, now)
        cur == get_current_active_user(users, token, now)
    IN /\ challenges' = out.challenges
       /\ creds' = out.creds
       /\ resp' = [op |-> "register_verify", token |-> token,
                   challenge |-> credential.challenge, res |-> out.res]
       /\ takes' = IF cur.status = 200
                   THEN NoteTake(cur.user.id, Peek(challenges, cur.user.id))
                   ELSE takes
       /\ UNCHANGED <<users, now, nextJti, nextChallenge, held, proc, lastIssued,
                      accepted,
                      books, records, leaves>>

(***************************************************************************)
(* POST /auth/webauthn/login/generate                                      *)
(***************************************************************************)
webauthn_login_generate(us, cs, store, email, challenge) ==
    LET user == by_identifier(us, email).user
    IN IF user = NoUser
       THEN [res |-> HTTPException(404, "User not found"), challenges |-> store]
       ELSE [res |-> [status |-> 200, challenge |-> challenge,
                      allowCredentials |-> CredIdsOf(cs, user.id)],
             challenges |-> Put(store, email, challenge)]

LoginGenerate(email) ==
    LET out == webauthn_login_generate(users, creds, challenges, email, nextChallenge + 1)
    IN /\ out.res.status = 200 => nextChallenge + 1 <= MaxChallenge
       /\ challenges' = out.challenges
       /\ resp' = [op |-> "login_generate", email |-> email, res |-> out.res]
       /\ IF out.res.status = 200
          THEN /\ nextChallenge' = nextChallenge + 1
               /\ lastIssued' = Put(lastIssued, email, nextChallenge + 1)
               /\ takes' = NoteIssue(email)
          ELSE UNCHANGED <<nextChallenge, lastIssued, takes>>
       /\ UNCHANGED <<users, creds, now, nextJti, held, proc, accepted,
                      books, records, leaves>>

(***************************************************************************)
(* POST /auth/webauthn/login/verify, in two steps: up to the verification  *)
(* (lines 432-472: the pop, the reads and the checks), then the write of   *)
(* the counter, the commit and the tokens (lines 474-485).  Requests run   *)
(* in worker threads, so the steps of two requests interleave.             *)
(***************************************************************************)
webauthn_login_verify_PopOnSuccess(us, cs, store, email, credential) ==
    LET expected_challenge == Peek(store, email)
        popped == Pop(store, email)
        found == by_identifier(us, email)
        user == found.user
        role == found.role
        db_cred == cred_by_id(cs, credential.id)
        verification == verify_authentication_response(credential, expected_challenge,
                            ORIGIN, RP_ID, db_cred.public_key, db_cred.sign_count)
    IN IF expected_challenge = 0
       THEN [res |-> HTTPException(400, "No active authentication session found"),
             challenges |-> store]
       ELSE IF user = NoUser \/ ~user.is_active
       THEN [res |-> HTTPException(404, "Inactive or non-existent user"),
             challenges |-> store]
       ELSE IF db_cred = NoCred
       THEN [res |-> HTTPException(400, "WebAuthn authentication failed: "
                                         \o "Credential not found"),
             challenges |-> store]
       ELSE IF ~verification.ok
       THEN [res |-> HTTPException(400, "WebAuthn authentication failed: "
                                         \o verification.error),
             challenges |-> store]
       ELSE [res |-> [status |-> 0],
             challenges |-> popped,
             user |-> user, role |-> role, db_cred |-> db_cred,
             new_sign_count |-> verification.new_sign_count]

webauthn_login_verify_SkipActive(us, cs, store, email, credential) ==
    LET expected_challenge == Peek(store, email)
        popped == Pop(store, email)
        found == by_identifier(us, email)
        user == found.user
        role == found.role
        db_cred == cred_by_id(cs, credential.id)
        verification == verify_authentication_response(credential, expected_challenge,
                            ORIGIN, RP_ID, db_cred.public_key, db_cred.sign_count)
    IN IF expected_challenge = 0
       THEN [res |-> HTTPException(400, "No active authentication session found"),
             challenges |-> popped]
       ELSE IF user = NoUser
       THEN [res |-> HTTPException(404, "Inactive or non-existent user"),
             challenges |-> popped]
       ELSE IF db_cred = NoCred
       THEN [res |-> HTTPException(400, "WebAuthn authentication failed: "
                                         \o "Credential not found"),
             challenges |-> popped]
       ELSE IF ~verification.ok
       THEN [res |-> HTTPException(400, "WebAuthn authentication failed: "
                                         \o verification.error),
             challenges |-> popped]
       ELSE [res |-> [status |-> 0],
             challenges |-> popped,
             user |-> user, role |-> role, db_cred |-> db_cred,
             new_sign_count |-> verification.new_sign_count]

webauthn_login_verify(us, cs, store, email, credential) ==
    LET expected_challenge == Peek(store, email)
        popped == Pop(store, email)
        found == by_identifier(us, email)
        user == found.user
        role == found.role
        db_cred == cred_by_id(cs, credential.id)
        verification == verify_authentication_response(credential, expected_challenge,
                            ORIGIN, RP_ID, db_cred.public_key, db_cred.sign_count)
    IN IF expected_challenge = 0
       THEN [res |-> HTTPException(400, "No active authentication session found"),
             challenges |-> popped]
       ELSE IF user = NoUser \/ ~user.is_active
       THEN [res |-> HTTPException(404, "Inactive or non-existent user"),
             challenges |-> popped]
       ELSE IF db_cred = NoCred
       THEN [res |-> HTTPException(400, "WebAuthn authentication failed: "
                                         \o "Credential not found"),
             challenges |-> popped]
       ELSE IF ~verification.ok
       THEN [res |-> HTTPException(400, "WebAuthn authentication failed: "
                                         \o verification.error),
             challenges |-> popped]
       ELSE [res |-> [status |-> 0],
             challenges |-> popped,
             user |-> user, role |-> role, db_cred |-> db_cred,
             new_sign_count |-> verification.new_sign_count]

\* lines 474-485; the flush writes the counter when it differs from the one
\* loaded, and the commit expires the loaded rows, so user.id and
\* user.full_name are read again from the table
webauthn_login_commit(us, cs, user, role, db_cred, new_sign_count, t, jti) ==
    LET row == get_by_id(us, user.kind, user.id)
        written == IF new_sign_count = db_cred.sign_count THEN cs
                   ELSE {IF c.credential_id = db_cred.credential_id
                         THEN [c EXCEPT !.sign_count = new_sign_count] ELSE c : c \in cs}
    IN IF row = NoUser
       THEN [res |-> HTTPException(500, "ObjectDeletedError"), creds |-> written]
       ELSE [res |-> [status |-> 200,
                      access_token |-> create_access_token(row.id,
                          ACCESS_TOKEN_EXPIRE_MINUTES, role, row.full_name, t, jti),
                      refresh_token |-> create_refresh_token(row.id, role, t, jti + 1),
                      token_type |-> "bearer"],
             creds |-> written]

StoredCount(credential_id) ==
    IF cred_by_id(creds, credential_id) = NoCred THEN -1
    ELSE cred_by_id(creds, credential_id).sign_count

\* how often the response of a request has been accepted with tokens
Accepted(email, credential) ==
    LET k == [email |-> email, credential |-> credential]
    IN IF k \in DOMAIN accepted THEN accepted[k] ELSE 0

\* a response made on the site by the authenticator that owns the credential
Genuine(credential) ==
    /\ credential.origin = ORIGIN
    /\ credential.rp_id = RP_ID
    /\ \E a \in Authenticators : a.id = credential.id /\ a.key = credential.signedBy

\* what is noted of a request: its identifier and counter, the counter read
\* for its credential (-1 for none), whether this very response has been
\* accepted before, the challenge it answers, and whether it is genuine
Request(email, credential) ==
    [email |-> email, sign_count |-> credential.sign_count,
     challenge |-> credential.challenge,
     stored |-> StoredCount(credential.id),
     replayed |-> Accepted(email, credential) > 0,
     genuine |-> Genuine(credential)]

LoginVerify(p, email, credential) ==
    LET out == webauthn_login_verify(users, creds, challenges, email, credential)
        req == Request(email, credential)
    IN /\ proc[p].pc = "idle"
       /\ \A q \in Procs : proc[q].pc = "idle" => p <= q
       /\ challenges' = out.challenges
       /\ takes' = NoteTake(email, Peek(challenges, email))
       /\ IF out.res.status = 0
          THEN /\ proc' = [proc EXCEPT ![p] =
                              [pc |-> "commit", req |-> req, credential |-> credential,
                               user |-> out.user, role |-> out.role,
                               db_cred |-> out.db_cred,
                               new_sign_count |-> out.new_sign_count]]
               /\ resp' = [op |-> "login_verify_pending", res |-> [pending |-> p]]
          ELSE /\ proc' = proc
               /\ resp' = [op |-> "login_verify", req |-> req, res |-> out.res]
       /\ UNCHANGED <<users, creds, now, nextJti, nextChallenge, held, lastIssued,
                      accepted,
                      books, records, leaves>>

LoginCommit(p) ==
    /\ proc[p].pc = "commit"
    /\ nextJti + 2 <= MaxJti
    /\ LET out == webauthn_login_commit(users, creds, proc[p].user, proc[p].role,
                      proc[p].db_cred, proc[p].new_sign_count, now, nextJti)
           k == [email |-> proc[p].req.email, credential |-> proc[p].credential]
       IN /\ creds' = out.creds
          /\ resp' = [op |-> "login_verify", req |-> proc[p].req, res |-> out.res,
                      overwrote |-> StoredCount(proc[p].db_cred.credential_id)]
          /\ nextJti' = IF out.res.status = 200 THEN nextJti + 2 ELSE nextJti
          /\ accepted' = IF out.res.status = 200
                         THEN Put(accepted, k, Accepted(k.email, k.credential) + 1)
                         ELSE accepted
    /\ proc' = [proc EXCEPT ![p] = Idle]
    /\ UNCHANGED <<users, challenges, now, nextChallenge, held, lastIssued, takes,
                   books, records, leaves>>

(***************************************************************************)
(* The state after construction, and password login under administration   *)
(* of the tables.                                                          *)
(***************************************************************************)
InitWith(us, cs) ==
    /\ users = us
    /\ creds = cs
    /\ challenges = [k \in {} |-> 0]
    /\ now = 0
    /\ nextJti = 0
    /\ nextChallenge = 0
    /\ held = {}
    /\ proc = [p \in Procs |-> Idle]
    /\ lastIssued = [k \in {} |-> 0]
    /\ accepted = [k \in {} |-> 0]
    /\ takes = [key |-> None, got |-> <<>>, over |-> 0]
    /\ books = <<>>
    /\ records = <<>>
    /\ leaves = <<>>
    /\ resp = [op |-> "start", res |-> [started |-> TRUE]]

Init == InitWith(InitUsers, {})

NextLogin ==
    \/ \E email \in Emails, password \in Passwords : Login(email, password)
    \/ \E u \in users, is_active \in BOOLEAN : UpdateUser(u, is_active)
    \/ \E u \in users : DeleteUser(u)

SpecLogin == Init /\ [][NextLogin]_vars

(***************************************************************************)
(* What the claims speak of, stated without the handlers' own lookups.     *)
(***************************************************************************)
Rank(kind) == CASE kind = "admin" -> 1 [] kind = "teacher" -> 2
                [] kind = "student" -> 3 [] kind = "parent" -> 4

\* identifier email resolves to principal p: p holds it and no principal of a
\* higher-priority kind does
Resolves(email, p) ==
    /\ p \in users
    /\ p.email = email
    /\ \A q \in users : q.email = email => Rank(q.kind) >= Rank(p.kind)

Known(email) == \E p \in users : p.email = email

SecretMatches(p, password) == p.hashed_password = <<"bcrypt", password>>

\* C1: login with an identifier that resolves to an active principal and with
\* that principal's secret succeeds, and the access token of the returned pair
\* decodes to the principal's subject id and role tag.
C1_LoginValidPair ==
    resp.op = "login" =>
        \A p \in users :
            (Resolves(resp.email, p) /\ p.is_active /\ SecretMatches(p, resp.password)) =>
                /\ resp.res.status = 200
                /\ resp.res.token_type = "bearer"
                /\ LET a == jwt_decode(resp.res.access_token, SECRET_KEY, now)
                       r == jwt_decode(resp.res.refresh_token, SECRET_KEY, now)
                   IN /\ a.ok /\ a.payload.sub = p.id /\ a.payload.role = p.kind
                      /\ a.payload.type = "access"
                      /\ r.ok /\ r.payload.type = "refresh"

C1_Witness ==
    /\ resp.op = "login"
    /\ resp.res.status = 200
    /\ \E p \in users : Resolves(resp.email, p) /\ p.kind = "student" /\ p.is_active
                        /\ SecretMatches(p, resp.password)

\* C2: login with an existing identifier and a wrong secret, and login with an
\* identifier no principal holds, end in one and the same error response.
InvalidCredentials == [status |-> 400, detail |-> "Incorrect email or password"]

C2_LoginIndistinguishable ==
    resp.op = "login" =>
        /\ ~Known(resp.email) => resp.res = InvalidCredentials
        /\ \A p \in users :
               (Resolves(resp.email, p) /\ ~SecretMatches(p, resp.password)) =>
                   resp.res = InvalidCredentials

C2_Witness ==
    /\ resp.op = "login"
    /\ resp.res = InvalidCredentials
    /\ \E p \in users : Resolves(resp.email, p) /\ ~SecretMatches(p, resp.password)
                        /\ ~p.is_active

(***************************************************************************)
(* Sessions: login, refresh, reset request and reset consume with the      *)
(* tokens a caller holds, under administration of the tables.              *)
(***************************************************************************)
NextSession ==
    \/ \E email \in Emails, password \in Passwords : Login(email, password)
    \/ \E token \in Presentable : Refresh(token)
    \/ \E email \in Emails : ForgotPassword(email)
    \/ \E token \in Presentable, new_password \in Passwords :
           ResetPassword(token, new_password)
    \/ \E token \in Tokens(resp.res) : Keep(token)
    \/ \E u \in users, is_active \in BOOLEAN : UpdateUser(u, is_active)
    \/ \E u \in users : DeleteUser(u)

SessionUsers == {u \in InitUsers : u.id \in {"a1", "s1"}}

InitSession == InitWith(SessionUsers, {})

SpecSession == InitSession /\ [][NextSession]_vars

(***************************************************************************)
(* Reset tokens over time.                                                 *)
(***************************************************************************)
NextExpiry ==
    \/ \E email \in Emails : ForgotPassword(email)
    \/ \E token \in Presentable, new_password \in Passwords :
           ResetPassword(token, new_password)
    \/ \E token \in Tokens(resp.res) : Keep(token)
    \/ \E d \in Waits : now + d <= MaxTime * Minute /\ Tick(d)

SpecExpiry == Init /\ [][NextExpiry]_vars

\* C3: refresh given a token whose kind is not refresh fails and issues no
\* token, also when the token is validly signed and unexpired.
C3_RefreshRejectsOtherKinds ==
    (resp.op = "refresh" /\ resp.token.payload.type # "refresh") =>
        /\ resp.res \in {HTTPException(400, "Invalid token type"),
                         HTTPException(400, "Invalid or expired refresh token")}
        /\ Tokens(resp.res) = {}

C3_Witness ==
    /\ resp.op = "refresh"
    /\ resp.res = HTTPException(400, "Invalid token type")
    /\ \E w \in held : /\ w.tok = resp.token /\ w.origin = "forgot"
                         /\ w.tok.sig = <<SECRET_KEY, w.tok.payload>>
                         /\ w.tok.payload.exp >= now

\* C8: a reset token held by reset-request at time T is accepted by
\* reset-consume up to T+15 minutes (so at T+10) and rejected as invalid
\* after that (so at T+16).
C8_ResetTokenWindow ==
    resp.op = "reset" =>
        \A w \in held :
            (w.tok = resp.token /\ w.origin = "forgot") =>
                /\ now <= w.at + 15 * Minute => resp.res.status = 200
                /\ now > w.at + 15 * Minute =>
                       resp.res = HTTPException(400, "Invalid or expired token")

C8_Witness ==
    /\ resp.op = "reset"
    /\ resp.res = HTTPException(400, "Invalid or expired token")
    /\ \E w \in held : /\ w.tok = resp.token /\ w.origin = "forgot"
                         /\ w.lastOk = w.at + 10 * Minute
                         /\ now = w.at + 16 * Minute

(***************************************************************************)
(* The passwordless ceremonies: registration by a logged-in principal,     *)
(* authentication by identifier, with requests to finish running           *)
(* concurrently.                                                           *)
(***************************************************************************)
CeremonyUsers == {u \in InitUsers : u.id \in {"a1", "s2"}}

Holders(us) == {u.email : u \in us}

\* the principals who are logged in and register passkeys
Registrants == {u \in CeremonyUsers : u.email = "alice@example.com"}

InitCeremony == InitWith(CeremonyUsers, {})

NextCeremony ==
    \/ \E token \in Bearers(Registrants) : RegisterGenerate(token)
    \/ \E token \in Bearers(Registrants), credential \in Attestations :
           RegisterVerify(token, credential)
    \/ \E email \in Emails : LoginGenerate(email)
    \/ \E p \in Procs, email \in Holders(Registrants), credential \in Assertions :
           LoginVerify(p, email, credential)
    \/ \E p \in Procs : LoginCommit(p)

SpecCeremony == InitCeremony /\ [][NextCeremony]_vars

\* C4: take-once: after a challenge is issued for a key, the first take on
\* the key returns that challenge and every later take, while no new one is
\* issued, returns nothing (0), at registration finish and at authentication
\* finish alike.
C4_TakeOnce ==
    /\ takes.got # <<>> => takes.got[1] = Peek(lastIssued, takes.key) /\ takes.got[1] > 0
    /\ \A i \in 2..Len(takes.got) : takes.got[i] = 0
    /\ takes.got # <<>> => Peek(challenges, takes.key) = 0

C4_Witness ==
    /\ takes.key \in {u.id : u \in Registrants}
    /\ Len(takes.got) = 2
    /\ takes.got[1] > 0
    /\ takes.got[2] = 0
    /\ resp.op = "register_verify"
    /\ resp.res = HTTPException(400, "No active registration session found")

NoChallenge == HTTPException(400, "No active authentication session found")

ReplayDetected ==
    HTTPException(400, "WebAuthn authentication failed: "
                       \o "Response sign count was not greater than current count")

Finished == resp.op = "login_verify"

\* the response answers the challenge issued last for its identifier
Current == Peek(lastIssued, resp.req.email) = resp.req.challenge

\* C7: a principal registers a credential and begins authentication once;
\* the genuine response to that challenge is answered with a token pair for
\* the principal (its counter being in order and the challenge not taken by
\* another request), and the same response submitted again is refused with
\* NoChallenge or ReplayDetected and no token.
C7_CapturedResponseTwice ==
    Finished =>
        LET req == resp.req
            user == by_identifier(users, req.email)
        IN /\ ( /\ req.genuine /\ Current /\ ~req.replayed
                /\ req.stored >= 0
                /\ req.sign_count > req.stored \/ (req.sign_count = 0 /\ req.stored = 0) )
              => \/ resp.res = NoChallenge
                 \/ /\ resp.res.status = 200
                    /\ LET d == jwt_decode(resp.res.access_token, SECRET_KEY, now)
                       IN d.ok /\ d.payload.sub = user.user.id
                               /\ d.payload.role = user.role
                    /\ jwt_decode(resp.res.refresh_token, SECRET_KEY, now).ok
           /\ (Current /\ req.replayed)
              => /\ resp.res \in {NoChallenge, ReplayDetected}
                 /\ Tokens(resp.res) = {}

C7_Witness ==
    /\ Finished
    /\ resp.req.email = "alice@example.com"
    /\ resp.req.genuine /\ Current /\ resp.req.replayed
    /\ resp.res = NoChallenge
    /\ \E c \in creds : c.user_id = "s2" /\ c.user_role = "student"
    /\ \E k \in DOMAIN accepted :
           /\ k.email = "alice@example.com"
           /\ accepted[k] = 1
           /\ cred_by_id(creds, k.credential.id).user_id = "s2"

(***************************************************************************)
(* Authentication alone, by principals whose passkeys are registered       *)
(* already: requests to finish race in the worker threads.                 *)
(***************************************************************************)
Passkey(user, a, sign_count) ==
    [user_id |-> user.id, user_role |-> user.kind, credential_id |-> a.id,
     public_key |-> PublicKey(a.key), sign_count |-> sign_count]

Registered ==
    {Passkey(CHOOSE u \in CeremonyUsers : u.id = "s2", [key |-> "k1", id |-> "c1"], 0),
     Passkey(CHOOSE u \in CeremonyUsers : u.id = "a1", [key |-> "k2", id |-> "c2"], 1)}

InitRace == InitWith(CeremonyUsers, Registered)

NextRace ==
    \/ \E email \in Emails : LoginGenerate(email)
    \/ \E p \in Procs, email \in Holders(CeremonyUsers), credential \in Assertions :
           LoginVerify(p, email, credential)
    \/ \E p \in Procs : LoginCommit(p)

SpecRace == InitRace /\ [][NextRace]_vars

\* the requests that have obtained challenge c: those verified and about to
\* commit, and those answered with tokens
Pending(c) == {p \in Procs : proc[p].pc = "commit" /\ proc[p].credential.challenge = c}

Won(c) == {<<k, i>> \in UNION {{k} \X (1..accepted[k]) : k \in DOMAIN accepted} :
               k.credential.challenge = c}

\* C5: of the finish calls that race on one challenge after a single begin,
\* at most one obtains the challenge and can succeed, under every
\* interleaving; every other one ends with NoChallenge or another failure,
\* never with a second success.
C5_OneWinnerPerChallenge ==
    /\ \A c \in 1..nextChallenge : Cardinality(Pending(c)) + Cardinality(Won(c)) <= 1
    /\ \A c \in 1..nextChallenge :
           (Pending(c) # {} /\ Finished /\ resp.req.challenge = c)
           => resp.res.status = 400 /\ Tokens(resp.res) = {}

C5_Witness ==
    \E p \in Procs :
        /\ proc[p].pc = "commit"
        /\ Finished
        /\ resp.req.email = proc[p].req.email
        /\ resp.req.challenge = proc[p].req.challenge
        /\ resp.req.genuine
        /\ resp.res = NoChallenge

\* C6: counter monotonicity, for authenticators that bear counters (the
\* counter of the response or the stored one is not 0): a finish whose
\* response carries a counter less than or equal to the counter stored for
\* the credential, as the finish read it or as it stands when the finish
\* writes its own, is rejected with ReplayDetected or another failure and
\* issues no token.
C6_CounterMonotonic ==
    (Finished /\ resp.req.stored >= 0) =>
        LET req == resp.req
            stale(stored) == /\ req.sign_count <= stored
                             /\ req.sign_count > 0 \/ stored > 0
        IN /\ stale(req.stored) => resp.res.status = 400 /\ Tokens(resp.res) = {}
           /\ ("overwrote" \in DOMAIN resp /\ stale(resp.overwrote))
              => resp.res.status = 400 /\ Tokens(resp.res) = {}

(***************************************************************************)
(* One identifier held by a principal of every kind: password login, reset *)
(* request and passwordless authentication with genuine responses, one     *)
(* request to finish at a time, while principals are deleted.              *)
(***************************************************************************)
ResolverUsers == {u \in InitUsers : u.email = "x@y.com"}

ResolverPasskeys ==
    {Passkey(CHOOSE u \in ResolverUsers : u.id = "t1", [key |-> "k1", id |-> "c1"], 0),
     Passkey(CHOOSE u \in ResolverUsers : u.id = "a1", [key |-> "k2", id |-> "c2"], 0)}

InitResolver == InitWith(ResolverUsers, ResolverPasskeys)

NextResolver ==
    \/ \E email \in Holders(ResolverUsers), password \in Passwords : Login(email, password)
    \/ \E email \in Holders(ResolverUsers) : ForgotPassword(email)
    \/ \E email \in Holders(ResolverUsers) : LoginGenerate(email)
    \/ \E email \in Holders(ResolverUsers), credential \in {c \in Assertions : Genuine(c)} :
           LoginVerify(1, email, credential)
    \/ LoginCommit(1)
    \/ \E u \in users : DeleteUser(u)

SpecResolver == InitResolver /\ [][NextResolver]_vars

\* the token is in order and names principal p with the role tag of p's kind
NamesPrincipal(token, p) ==
    LET d == jwt_decode(token, SECRET_KEY, now)
    IN d.ok /\ d.payload.sub = p.id /\ d.payload.role = p.kind

\* C9: an identifier held by principals of several kinds resolves to the
\* one of the first kind in the order Administrator, Staff, PrimaryUser,
\* Guardian, with that kind's role tag: password login succeeds exactly with
\* that principal's secret and names it in both tokens, reset-request issues
\* its token for it, authentication begin lists its credentials, and
\* authentication finish issues its tokens for it.
C9_FixedOrderFallthrough ==
    \A p \in users :
        /\ (resp.op = "login" /\ Resolves(resp.email, p)) =>
               /\ resp.res.status = 200 <=> SecretMatches(p, resp.password)
               /\ resp.res.status = 200 =>
                      /\ NamesPrincipal(resp.res.access_token, p)
                      /\ NamesPrincipal(resp.res.refresh_token, p)
        /\ (resp.op = "forgot" /\ Resolves(resp.email, p)) =>
               resp.res.status = 200 /\ NamesPrincipal(resp.res.token, p)
        /\ (resp.op = "login_generate" /\ Resolves(resp.email, p)) =>
               /\ resp.res.status = 200
               /\ resp.res.allowCredentials = CredIdsOf(creds, p.id)
        /\ (Finished /\ Resolves(resp.req.email, p) /\ resp.res.status = 200) =>
               /\ NamesPrincipal(resp.res.access_token, p)
               /\ NamesPrincipal(resp.res.refresh_token, p)

C9_Witness ==
    /\ Finished
    /\ resp.res.status = 200
    /\ {u.kind : u \in {u \in users : u.email = resp.req.email}}
           = {"teacher", "student", "parent"}
    /\ \E p \in users : p.kind = "teacher" /\ NamesPrincipal(resp.res.access_token, p)

(***************************************************************************)
(* The token codec by itself: a claim set is encoded by one of the two     *)
(* constructors and decoded as api/deps.py decodes a bearer token, around  *)
(* the moment of expiry.                                                   *)
(***************************************************************************)
Subjects == {"a1", "s2"}
Names == {"Ann", "", None}
Kinds == {"access", "refresh"}
Deltas == {0, 1, RESET_TOKEN_EXPIRE_MINUTES}

\* the claim set asked for
Claims(kind, subject, expires_delta, role, full_name, t, jti) ==
    [sub |-> subject, role |-> role, type |-> kind, jti |-> jti,
     full_name |-> IF kind = "access" THEN full_name ELSE None,
     exp |-> IF kind = "refresh" THEN t + REFRESH_TOKEN_EXPIRE_DAYS * Day
             ELSE IF expires_delta = 0 THEN t + ACCESS_TOKEN_EXPIRE_MINUTES * Minute
             ELSE t + expires_delta * Minute]

Encode(kind, subject, expires_delta, role, full_name) ==
    LET token == IF kind = "access"
                 THEN create_access_token(subject, expires_delta, role, full_name,
                                          now, nextJti)
                 ELSE create_refresh_token(subject, role, now, nextJti)
        claims == Claims(kind, subject, expires_delta, role, full_name, now, nextJti)
    IN /\ held = {}
       /\ nextJti + 1 <= MaxJti
       /\ nextJti' = nextJti + 1
       /\ held' = {[tok |-> token, origin |-> "encode", at |-> now, lastOk |-> -1,
                    with |-> {}, claims |-> claims]}
       /\ resp' = [op |-> "encode", claims |-> claims, res |-> [token |-> token]]
       /\ UNCHANGED <<users, creds, challenges, now, nextChallenge, proc, lastIssued,
                      accepted, takes,
                      books, records, leaves>>

Decode(w) ==
    /\ w.origin = "encode"
    /\ resp' = [op |-> "decode", claims |-> w.claims, token |-> w.tok,
                res |-> jwt_decode(w.tok, SECRET_KEY, now)]
    /\ UNCHANGED <<users, creds, challenges, now, nextJti, nextChallenge, held, proc,
                   lastIssued, accepted, takes,
                   books, records, leaves>>

\* the moments within a second of the expiry of a token held
Moments == UNION {{w.claims.exp + k : k \in (0 - Second)..(Second + 1)} : w \in held}

InitCodec ==
    /\ users = {}
    /\ creds = {}
    /\ challenges = [k \in {} |-> 0]
    /\ now \in 0..(Second - 1)
    /\ nextJti \in 0..(MaxJti - 1)
    /\ nextChallenge = 0
    /\ held = {}
    /\ proc = [p \in Procs |-> Idle]
    /\ lastIssued = [k \in {} |-> 0]
    /\ accepted = [k \in {} |-> 0]
    /\ takes = [key |-> None, got |-> <<>>, over |-> 0]
    /\ books = <<>>
    /\ records = <<>>
    /\ leaves = <<>>
    /\ resp = [op |-> "start", res |-> [started |-> TRUE]]

NextCodec ==
    \/ \E kind \in Kinds, subject \in Subjects, expires_delta \in Deltas,
          role \in Roles, full_name \in Names :
           Encode(kind, subject, expires_delta, role, full_name)
    \/ \E w \in held : Decode(w)
    \/ \E t \in Moments : t > now /\ Tick(t - now)

SpecCodec == InitCodec /\ [][NextCodec]_vars

Expired == JwtErr("ExpiredSignatureError")

\* C10 as it is put: decode(encode(claims)) returns the same claims at any
\* time before the expiry, and at any time after it decode fails with the
\* expiry error although the signature is valid.
C10_RoundTrip ==
    resp.op = "decode" =>
        /\ now < resp.claims.exp => resp.res = JwtOk(resp.claims)
        /\ now > resp.claims.exp =>
               /\ resp.res = Expired
               /\ resp.token.sig = HS256(resp.token.payload, SECRET_KEY)

\* the start of the second a moment lies in
Whole(t) == (t \div TicksPerSecond) * TicksPerSecond

\* C10, in whole seconds: decode(encode(claims)) returns the claims, with the
\* expiry cut to the whole second and an empty display name left out, at any
\* time up to the end of the second of expiry; from the next second on decode
\* fails with the expiry error although the signature is still valid.
C10_RoundTripWholeSeconds ==
    resp.op = "decode" =>
        LET sent == [resp.claims EXCEPT !.exp = Whole(@),
                                        !.full_name = IF @ = "" THEN None ELSE @]
        IN /\ resp.token.payload = sent
           /\ now < sent.exp + Second => resp.res = JwtOk(sent)
           /\ now >= sent.exp + Second =>
                  /\ resp.res = Expired
                  /\ resp.token.sig = HS256(resp.token.payload, SECRET_KEY)

C10_Witness ==
    /\ resp.op = "decode"
    /\ resp.claims.exp # Whole(resp.claims.exp)
    /\ now >= Whole(resp.claims.exp) + Second
    /\ resp.res = Expired
    /\ resp.token.sig = HS256(resp.token.payload, SECRET_KEY)

\* C11: a reset token authorizes one password change: once a consume with
\* the token has succeeded, every later consume with the same token is
\* rejected and leaves the stored digests as they are.
C11_ResetTokenSingleUse ==
    [][(resp'.op = "reset" /\ \E w \in held : w.tok = resp'.token /\ w.lastOk >= 0)
          => (resp'.res.status # 200 /\ users' = users)]_vars

(***************************************************************************)
(* Both ceremonies by principals of whom one has a passkey registered      *)
(* already.                                                                *)
(***************************************************************************)
InitStore == InitWith(CeremonyUsers, {c \in Registered : c.user_id = "s2"})

SpecStore == InitStore /\ [][NextCeremony]_vars

Mismatch(ceremony) ==
    HTTPException(400, "WebAuthn " \o ceremony \o " failed: "
                       \o "Client data challenge was not expected challenge")

\* C12: the store holds at most one live challenge per key, the one issued
\* last for it; a challenge replaced by a later begin for its key is never
\* redeemed: no finish presenting a response to it succeeds, at registration
\* or at authentication, and the finish that succeeds answers the later one.
C12_LastWriteWins ==
    /\ \A k \in DOMAIN challenges :
           challenges[k] = Peek(lastIssued, k) /\ challenges[k] > 0
    /\ takes.over > 0 =>
           /\ takes.over < Peek(lastIssued, takes.key)
           /\ \A p \in Procs :
                  proc[p].pc = "commit" /\ proc[p].req.email = takes.key
                      => proc[p].req.challenge # takes.over
           /\ \A k \in DOMAIN accepted :
                  k.email = takes.key => k.credential.challenge # takes.over
           /\ (Finished /\ resp.req.email = takes.key /\ resp.req.challenge = takes.over)
                  => resp.res.status = 400 /\ Tokens(resp.res) = {}
           /\ (resp.op = "register_verify" /\ resp.challenge = takes.over
                 /\ get_current_user(users, resp.token, now).status = 200
                 /\ get_current_user(users, resp.token, now).user.id = takes.key)
                  => resp.res.status = 400
    /\ (resp.op = "register_verify" /\ resp.res.status = 200)
           => resp.challenge = Peek(lastIssued, get_current_user(users, resp.token, now).user.id)

C12_Witness ==
    /\ takes.over > 0
    /\ takes.got = <<Peek(lastIssued, takes.key)>>
    /\ Finished
    /\ resp.req.email = takes.key
    /\ resp.req.challenge = takes.over
    /\ resp.req.genuine
    /\ resp.res = Mismatch("authentication")


(***************************************************************************)
(* Authentication by authenticators that bear a counter: every response    *)
(* is made on the site, signed by the authenticator that owns the          *)
(* credential, and carries a value of its counter.                         *)
(***************************************************************************)
Counters == 0..2

Signatures ==
    {[id |-> a.id, signedBy |-> a.key, challenge |-> c,
      origin |-> ORIGIN, rp_id |-> RP_ID, sign_count |-> n] :
        a \in Authenticators, c \in 1..nextChallenge, n \in Counters}

NextCounter ==
    \/ \E email \in Holders(CeremonyUsers) : LoginGenerate(email)
    \/ \E p \in Procs, email \in Holders(CeremonyUsers), credential \in Signatures :
           LoginVerify(p, email, credential)
    \/ \E p \in Procs : LoginCommit(p)

SpecCounter == InitRace /\ [][NextCounter]_vars

\* C13: the counter stored for a credential never decreases: no step of any
\* interleaving of finish calls, concurrent ones for separately issued
\* challenges included, leaves a credential with a counter less than the
\* one it had.
C13_StoredCounterNeverDecreases ==
    [][\A c \in creds : \A d \in creds' :
           d.credential_id = c.credential_id => d.sign_count >= c.sign_count]_vars


InactiveAccount == HTTPException(400, "Inactive user")

\* C14: login answers InactiveAccount only after the secret has verified:
\* for an inactive principal, a wrong secret yields InvalidCredentials, as
\* for an identifier no principal holds, only the right secret yields
\* InactiveAccount, and neither response carries a token.
C14_SecretBeforeActiveFlag ==
    resp.op = "login" =>
        /\ ~Known(resp.email) => resp.res = InvalidCredentials
        /\ \A p \in users :
               (Resolves(resp.email, p) /\ ~p.is_active) =>
                   /\ Tokens(resp.res) = {}
                   /\ resp.res = IF SecretMatches(p, resp.password)
                                 THEN InactiveAccount ELSE InvalidCredentials

C14_Witness ==
    /\ resp.op = "login"
    /\ resp.res = InactiveAccount
    /\ \E p \in users : Resolves(resp.email, p) /\ ~p.is_active
                        /\ SecretMatches(p, resp.password)
    /\ \E q \in users : q.email = resp.email /\ q.is_active


(***************************************************************************)
(* Protected endpoints: requests that bear a token kept from a login, a    *)
(* forgery of it, or the access token of an earlier session, while         *)
(* principals are deactivated and reactivated.                             *)
(***************************************************************************)
NextGuard ==
    \/ \E email \in Emails, password \in Passwords : Login(email, password)
    \/ \E token \in Tokens(resp.res) : Keep(token)
    \/ \E guard \in Guards, token \in Presentable \cup Bearers(InitUsers) :
           Protected(guard, token)
    \/ \E u \in users, is_active \in BOOLEAN : UpdateUser(u, is_active)

SpecGuard == Init /\ [][NextGuard]_vars

\* C15: a refresh token serves only to mint access tokens: presented as the
\* bearer credential to get_current_user or to a guard built on it, a token
\* of kind refresh is rejected and authenticates no request.
C15_RefreshTokenIsNoBearer ==
    (resp.op = "protected" /\ resp.token.payload.type = "refresh")
        => resp.res.status # 200


(***************************************************************************)
(* Refresh with the tokens a caller keeps from logins, and with refresh    *)
(* tokens signed for a principal that never was (a role that is no kind,   *)
(* or an id no row has), while principals are deactivated and deleted and  *)
(* time passes.                                                            *)
(***************************************************************************)
Strangers ==
    {create_refresh_token("fake_id", role, 0, -1) : role \in {"hacker", "admin"}}

NextRefresh ==
    \/ \E email \in Emails, password \in Passwords : Login(email, password)
    \/ \E token \in Tokens(resp.res) : Keep(token)
    \/ \E token \in Presentable \cup Strangers : Refresh(token)
    \/ \E u \in users, is_active \in BOOLEAN : UpdateUser(u, is_active)
    \/ \E u \in users : DeleteUser(u)
    \/ \E d \in Waits : now + d <= MaxTime * Minute /\ Tick(d)

SpecRefresh == InitSession /\ [][NextRefresh]_vars

NotFound == HTTPException(404, "User not found")

\* a token that passes the decoding and the kind check of refresh
Refreshing(token) ==
    /\ jwt_decode(token, SECRET_KEY, now).ok
    /\ token.payload.type = "refresh"

\* C16: refresh issues a new access token only when the (role, subject)
\* claims of the refresh token resolve to an existing, active principal of
\* that kind: when they resolve to none, as when the role is not one of the
\* four kinds, it fails with NotFound (404); when the principal is inactive
\* it fails with InactiveAccount; neither response carries a token.
C16_RefreshNeedsActivePrincipal ==
    (resp.op = "refresh" /\ Refreshing(resp.token)) =>
        LET named == {u \in users : /\ u.kind = resp.token.payload.role
                                    /\ u.id = resp.token.payload.sub}
        IN /\ named = {} => resp.res = NotFound /\ Tokens(resp.res) = {}
           /\ \A u \in named : ~u.is_active =>
                  resp.res = InactiveAccount /\ Tokens(resp.res) = {}
           /\ resp.res.status = 200 => \E u \in named : u.is_active

C16_Witness ==
    /\ resp.op = "refresh"
    /\ Refreshing(resp.token)
    /\ resp.token.payload.role = "hacker"
    /\ resp.res = NotFound
    /\ \E w \in held : w.origin = "login" /\ w.tok.payload.type = "refresh"
                       /\ refresh_token(users, w.tok, now, nextJti) = InactiveAccount


\* the tokens a response has minted: all it carries, but for refresh, which
\* carries the refresh token presented to it
Minted ==
    IF resp.op = "refresh" THEN Tokens(resp.res) \ {resp.token} ELSE Tokens(resp.res)

\* the tokens the caller knows from earlier responses
Earlier == Kept \cup UNION {w.with : w \in held}

C18_RefreshTokenNotRotated ==
    (resp.op = "refresh" /\ resp.res.status = 200) =>
        /\ resp.res.refresh_token = resp.token
        /\ resp.res.access_token.payload.type = "access"
        /\ resp.res.access_token \notin Earlier
        /\ LET again == refresh_token(users, resp.token, now, nextJti)
           IN /\ again.status = 200
              /\ again.refresh_token = resp.token
              /\ again.access_token # resp.res.access_token

\* the refresh token of the first login succeeds a second time, after time
\* has passed
C18_Witness ==
    /\ resp.op = "refresh"
    /\ resp.res.status = 200
    /\ resp.res.refresh_token = resp.token
    /\ resp.token.payload.jti = 1
    /\ resp.res.access_token.payload.jti = 3
    /\ \E w \in held : w.tok = resp.token /\ w.origin = "login" /\ now > w.at


ActiveGuards == Guards \ {"get_current_user"}

\* C19: inactive accounts cannot enter endpoints: each guard named active
\* (get_current_active_user, get_current_active_superuser,
\* get_current_active_staff) rejects a request whose token resolves to a
\* principal whose is_active is false, of whichever of the four kinds.
C19_ActiveGuardsRejectInactive ==
    (resp.op = "protected" /\ resp.guard \in ActiveGuards) =>
        \A u \in users :
            (/\ jwt_decode(resp.token, SECRET_KEY, now).ok
             /\ u.kind = resp.token.payload.role
             /\ u.id = resp.token.payload.sub
             /\ ~u.is_active) => resp.res.status # 200


(***************************************************************************)
(* Both ceremonies while the principal who performs them is deactivated,   *)
(* reactivated or deleted between a begin and a finish.                    *)
(***************************************************************************)
NextFinish ==
    \/ NextCeremony
    \/ \E u \in users, is_active \in BOOLEAN : u \in Registrants /\ UpdateUser(u, is_active)
    \/ \E u \in users : u.email \in Holders(Registrants) /\ DeleteUser(u)

SpecFinish == InitCeremony /\ [][NextFinish]_vars

NoRegistration == HTTPException(400, "No active registration session found")

\* C20: a finish removes the challenge of its key whether it succeeds or
\* fails: after a registration or authentication finish that has taken a
\* challenge and then failed (principal missing or inactive, credential
\* unknown, verification failed), the key has no challenge, and a further
\* finish for the key, no begin coming between, is answered NoChallenge.
C20_FinishRemovesChallenge ==
    /\ (resp.op = "login_verify" /\ "overwrote" \notin DOMAIN resp) =>
           /\ resp.res.status # 200
           /\ Peek(challenges, resp.req.email) = 0
           /\ \A credential \in Assertions :
                  webauthn_login_verify(users, creds, challenges, resp.req.email,
                                        credential).res = NoChallenge
    /\ resp.op = "login_verify_pending" =>
           Peek(challenges, proc[resp.res.pending].req.email) = 0
    /\ (resp.op = "register_verify"
          /\ get_current_active_user(users, resp.token, now).status = 200) =>
           /\ Peek(challenges, get_current_user(users, resp.token, now).user.id) = 0
           /\ \A credential \in Attestations :
                  webauthn_register_verify(users, creds, challenges, resp.token,
                                           credential, now).res = NoRegistration

\* a finish took the challenge of a deactivated principal and failed, and
\* the next finish for the identifier found none
C20_Witness ==
    /\ resp.op = "login_verify"
    /\ resp.res = NoChallenge
    /\ takes.key = resp.req.email
    /\ Len(takes.got) = 2
    /\ takes.got[1] > 0
    /\ takes.got[2] = 0
    /\ Pending(takes.got[1]) = {} /\ Won(takes.got[1]) = {}
    /\ \E u \in users : u.email = resp.req.email /\ ~u.is_active


\* C21: an authentication finish issues a token pair for the principal its
\* identifier resolves to only if the credential found by the credential id
\* of the response is bound to that principal (its principal id and role tag
\* are the principal's): a response signed with a credential that another
\* principal registered yields no tokens for the principal identified.
C21_CredentialBoundToPrincipal ==
    \A k \in DOMAIN accepted :
        accepted[k] > 0 =>
            LET db_cred == cred_by_id(creds, k.credential.id)
                found == by_identifier(users, k.email)
            IN /\ db_cred.user_id = found.user.id
               /\ db_cred.user_role = found.role


\* C22: reset-consume asserts the scope of its token: it changes a password
\* only when the token was minted by reset-request, and answers InvalidToken
\* to a validly signed token of kind refresh and to an access token minted
\* by login or refresh.
C22_ResetAssertsTokenScope ==
    resp.op = "reset" =>
        /\ resp.res.status = 200 => \E w \in held : w.tok = resp.token /\ w.origin = "forgot"
        /\ \A w \in held :
               (w.tok = resp.token /\ w.origin \in {"login", "refresh"}) =>
                   resp.res = HTTPException(400, "Invalid or expired token")


(***************************************************************************)
(* A caller who knows identifiers only: reset requests, and requests to    *)
(* protected endpoints and to begin a registration that bear the tokens    *)
(* kept from them.                                                         *)
(***************************************************************************)
NextScope ==
    \/ \E email \in Emails : ForgotPassword(email)
    \/ \E token \in Tokens(resp.res) : Keep(token)
    \/ \E guard \in Guards, token \in Presentable : Protected(guard, token)
    \/ \E token \in Presentable : RegisterGenerate(token)

SpecScope == Init /\ [][NextScope]_vars

\* C23: a reset token is scoped to the password change: the token returned
\* by reset-request for an identifier is not accepted as a bearer credential
\* by get_current_user, so it neither enters a protected endpoint (reading
\* the principal's profile) nor begins a passwordless registration for the
\* principal.
C23_ResetTokenIsNoBearer ==
    (resp.op \in {"protected", "register_generate"}
       /\ \E w \in held : w.tok = resp.token /\ w.origin = "forgot")
        => resp.res.status # 200


NoPrincipal == HTTPException(404, "Inactive or non-existent user")

\* the identifier of the finish whose first step has just been taken, None
\* after any other step
Resolving ==
    IF resp'.op = "login_verify" /\ "overwrote" \notin DOMAIN resp' THEN resp'.req.email
    ELSE IF resp'.op = "login_verify_pending" THEN proc'[resp'.res.pending].req.email
    ELSE None

\* C24: an authentication finish issues tokens and writes the counter only
\* if the identifier, resolved again by the finish, still names an existing
\* principal whose active flag is true: when the principal has been deleted
\* or deactivated since the begin, the finish fails, issues no token and
\* changes the counter of no credential.
C24_FinishResolvesAgain ==
    [][/\ Resolving # None =>
            LET user == by_identifier(users, Resolving).user
            IN (user = NoUser \/ ~user.is_active) =>
                   /\ resp'.op = "login_verify"
                   /\ resp'.res \in {NoChallenge, NoPrincipal}
                   /\ Tokens(resp'.res) = {}
                   /\ creds' = creds
                   /\ proc' = proc
                   /\ nextJti' = nextJti
       /\ \A p \in Procs :
              proc'[p].pc = "commit" =>
                  /\ proc'[p].user.is_active
                  /\ proc'[p].user.email = proc'[p].req.email
       /\ (creds' # creds /\ resp'.op = "login_verify") =>
              \E p \in Procs : proc[p].pc = "commit" /\ proc'[p].pc = "idle"]_vars

C24_Witness ==
    /\ resp.op = "login_verify"
    /\ resp.res = NoPrincipal
    /\ resp.req.genuine
    /\ resp.req.stored >= 0
    /\ takes.key = resp.req.email
    /\ Len(takes.got) = 1
    /\ takes.got[1] = resp.req.challenge
    /\ \E u \in users : u.email = resp.req.email /\ ~u.is_active


\* C25: after a successful consume(token, new_secret) for the principal P
\* that the (role, subject) claims of the token name, the digest stored for
\* P verifies new_secret and no other secret, so login with P's identifier
\* and new_secret succeeds when P is active and is the principal the
\* identifier resolves to; the consume changes nothing else of P and no
\* other principal.
C25_ResetOverwritesDigest ==
    [][(resp'.op = "reset" /\ resp'.res.status = 200) =>
          LET claims == resp'.token.payload
              P == by_role_and_id(users, claims.role, claims.sub)
              Q == by_role_and_id(users', claims.role, claims.sub)
          IN /\ P \in users
             /\ P.kind = claims.role /\ P.id = claims.sub
             /\ Q = [P EXCEPT !.hashed_password = Q.hashed_password]
             /\ users' = (users \ {P}) \cup {Q}
             /\ verify_password(resp'.new_password, Q.hashed_password)
             /\ \A old \in Passwords :
                    old # resp'.new_password => ~verify_password(old, Q.hashed_password)
             /\ (Q.is_active /\ by_identifier(users', Q.email).user = Q) =>
                    login_access_token(users', Q.email, resp'.new_password,
                                       now', nextJti').status = 200]_vars

\* the consume has replaced a digest of another secret, and the identifier
\* is held by a second principal whose digest it has left alone
C25_Witness ==
    /\ resp.op = "reset"
    /\ resp.res.status = 200
    /\ LET P == by_role_and_id(users, resp.token.payload.role, resp.token.payload.sub)
       IN /\ P.is_active
          /\ by_identifier(users, P.email).user = P
          /\ verify_password(resp.new_password, P.hashed_password)
          /\ \E u \in InitUsers : u.id = P.id /\ u.hashed_password # P.hashed_password
          /\ \E q \in users : q # P /\ q.email = P.email /\ q \in InitUsers


(***************************************************************************)
(* Ids are unique within a kind only: an administrator and a student with  *)
(* one id, a teacher with another, and signed tokens for that id under     *)
(* every role tag, a tag that is no kind, and no tag, presented to the     *)
(* guards and to refresh while principals are deleted.                     *)
(***************************************************************************)
KindUsers ==
    {Row("admin", "u1", "root@y.com", "pw1", "Root", TRUE),
     Row("student", "u1", "stu@y.com", "pw2", "Stu", TRUE),
     Row("teacher", "u2", "tea@y.com", "pw1", "Tea", TRUE)}

Tags == Roles \cup {"hacker", None}

Badges ==
    {create_access_token(sub, ACCESS_TOKEN_EXPIRE_MINUTES, role, None, 0, -1) :
         sub \in {"u1", "u2"}, role \in Tags}
    \cup {create_refresh_token(sub, role, 0, -1) : sub \in {"u1", "u2"}, role \in Tags}

InitKinds == InitWith(KindUsers, {})

NextKinds ==
    \/ \E guard \in Guards, token \in Badges : Protected(guard, token)
    \/ \E token \in Badges : Refresh(token)
    \/ \E u \in users : DeleteUser(u)

SpecKinds == InitKinds /\ [][NextKinds]_vars

\* the principals a token names: those of the kind of its role tag with the
\* id of its subject
NamedBy(token) ==
    {u \in users : u.kind = token.payload.role /\ u.id = token.payload.sub}

\* C26: no role confusion in resolution by id: a token with role tag r and
\* subject x resolves to the principal of kind r with id x and to no
\* principal of another kind that has the id; a token whose role tag is
\* missing or is no kind resolves to no principal; so superuser-only access
\* is granted to tokens with the administrator tag alone.
C26_NoRoleConfusion ==
    /\ resp.op = "protected" =>
           /\ resp.res.status = 200 => resp.res.user \in NamedBy(resp.token)
           /\ NamedBy(resp.token) = {} => resp.res = NotFound
           /\ (resp.guard = "get_current_active_superuser" /\ resp.res.status = 200)
                  => resp.token.payload.role = "admin" /\ resp.res.user.kind = "admin"
    /\ resp.op = "refresh" =>
           /\ resp.res.status = 200 =>
                  /\ NamedBy(resp.token) # {}
                  /\ resp.res.access_token.payload.role = resp.token.payload.role
                  /\ resp.res.access_token.payload.sub = resp.token.payload.sub
           /\ (NamedBy(resp.token) = {} /\ resp.token.payload.type = "refresh")
                  => resp.res = NotFound

\* the administrator's token resolves to nobody once the administrator is
\* deleted, though a student has the id
C26_Witness ==
    /\ resp.op = "protected"
    /\ resp.token.payload.role = "admin"
    /\ resp.res = NotFound
    /\ \E u \in users : u.id = resp.token.payload.sub /\ u.kind = "student"


\* C27: login verifies the secret against the first principal matched in
\* the order of precedence alone and does not fall through when it
\* mismatches: with an identifier held in two kinds, login with the secret
\* of the principal of lower priority, which is not the secret of the one
\* of higher priority, fails with InvalidCredentials and issues no token.
C27_NoFallthroughOnMismatch ==
    resp.op = "login" =>
        \A p \in users, q \in users :
            (/\ Resolves(resp.email, p)
             /\ q.email = resp.email /\ q # p
             /\ SecretMatches(q, resp.password)
             /\ ~SecretMatches(p, resp.password)) =>
                /\ resp.res = InvalidCredentials
                /\ Tokens(resp.res) = {}

C27_Witness ==
    /\ resp.op = "login"
    /\ resp.res = InvalidCredentials
    /\ \E p \in users, q \in users :
           /\ Resolves(resp.email, p) /\ p.is_active
           /\ q.email = resp.email /\ q.is_active
           /\ Rank(q.kind) > Rank(p.kind)
           /\ SecretMatches(q, resp.password)
           /\ ~SecretMatches(p, resp.password)


(***************************************************************************)
(* DELETE /admins/{admin_id}: the guard, the lookup and the self-deletion  *)
(* check (admins.py lines 177, 209-215), then the delete and the commit    *)
(* (lines 217-219).  Requests run in worker threads, each with a session   *)
(* of its own, so the steps of two requests interleave.                    *)
(***************************************************************************)
delete_admin(us, token, admin_id, t) ==
    LET cur == get_current_active_superuser(us, token, t)
        admin == get_by_id(us, "admin", admin_id)
    IN IF cur.status # 200 THEN [res |-> cur]
       ELSE IF admin = NoUser THEN [res |-> HTTPException(404, "Admin not found")]
       ELSE IF admin.id = cur.user.id
       THEN [res |-> HTTPException(400, "Cannot delete current admin")]
       ELSE [res |-> [status |-> 0], admin |-> admin, current_user |-> cur.user]

\* the flush deletes the row by its primary key; a row that is gone already
\* makes the flush raise StaleDataError
delete_admin_commit(us, admin) ==
    IF admin \in us
    THEN [res |-> [status |-> 200, admin |-> admin.id], users |-> us \ {admin}]
    ELSE [res |-> HTTPException(500, "StaleDataError"), users |-> us]

DeleteAdmin(p, token, admin_id) ==
    LET out == delete_admin(users, token, admin_id, now)
    IN /\ proc[p].pc = "idle"
       /\ \A q \in Procs : proc[q].pc = "idle" => p <= q
       /\ IF out.res.status = 0
          THEN /\ proc' = [proc EXCEPT ![p] = [pc |-> "delete", admin |-> out.admin,
                                               current_user |-> out.current_user]]
               /\ resp' = [op |-> "delete_admin_pending", res |-> [pending |-> p]]
          ELSE /\ proc' = proc
               /\ resp' = [op |-> "delete_admin", by |-> token.payload.sub,
                           admin_id |-> admin_id, res |-> out.res]
       /\ UNCHANGED <<users, creds, challenges, now, nextJti, nextChallenge, held,
                      lastIssued, accepted, takes,
                      books, records, leaves>>

DeleteAdminCommit(p) ==
    /\ proc[p].pc = "delete"
    /\ LET out == delete_admin_commit(users, proc[p].admin)
       IN /\ users' = out.users
          /\ resp' = [op |-> "delete_admin", by |-> proc[p].current_user.id,
                      admin_id |-> proc[p].admin.id, res |-> out.res]
    /\ proc' = [proc EXCEPT ![p] = Idle]
    /\ UNCHANGED <<creds, challenges, now, nextJti, nextChallenge, held, lastIssued,
                   accepted, takes,
                   books, records, leaves>>

Staff ==
    {Row("admin", "r1", "r1@y.com", "pw1", "Ada", TRUE),
     Row("admin", "r2", "r2@y.com", "pw1", "Bob", TRUE),
     Row("admin", "r3", "r3@y.com", "pw2", "Cyd", TRUE),
     Row("teacher", "t9", "t9@y.com", "pw2", "Tess", TRUE)}

InitAdmins == InitWith(Staff, {})

NextAdmins ==
    \/ \E p \in Procs, token \in Bearers(Staff), admin_id \in {u.id : u \in Staff} :
           DeleteAdmin(p, token, admin_id)
    \/ \E p \in Procs : DeleteAdminCommit(p)

SpecAdmins == InitAdmins /\ [][NextAdmins]_vars

\* C28: the self-deletion check of delete_admin prevents lock-out: from a
\* state with an administrator, after any sequence or interleaving of
\* delete_admin requests, each by an authenticated administrator, at least
\* one administrator record remains, and no request deletes the
\* administrator that issued it.
C28_NoLockOut ==
    /\ Table(users, "admin") # {}
    /\ (resp.op = "delete_admin" /\ resp.res.status = 200) => resp.by # resp.admin_id


(***************************************************************************)
(* crud_library.py.  A row's id is its place in the table.  An issue and a *)
(* return load their rows, change them in memory and write them at the     *)
(* commit; requests run in worker threads, each with a session of its own, *)
(* so the reads and the commits of two requests interleave.                *)
(***************************************************************************)
Quantities == {1, 2}

create_book(table, quantity) ==
    Append(table, [quantity |-> quantity, available_quantity |-> quantity])

\* no row: None
NoBook == [quantity |-> -1, available_quantity |-> -1]

get_book(table, book_id) ==
    IF book_id \in DOMAIN table THEN table[book_id] ELSE NoBook

\* lines 98-100: the check, on the row as loaded
create_borrow_record(table, book_id) ==
    LET book == get_book(table, book_id)
    IN IF book = NoBook \/ book.available_quantity < 1
       THEN [res |-> HTTPException(400, "Book not available")]
       ELSE [res |-> [status |-> 0], book_id |-> book_id, book |-> book]

\* lines 103-116: the loaded row with one copy less, and the new record
create_borrow_record_commit(table, rows, book_id, book) ==
    [books |-> [table EXCEPT ![book_id].available_quantity = book.available_quantity - 1],
     records |-> Append(rows, [book_id |-> book_id, status |-> "issued"])]

\* lines 142-144 and 156: the record and its book, as loaded
return_book(table, rows, borrow_id) ==
    IF borrow_id \notin DOMAIN rows \/ rows[borrow_id].status = "returned"
    THEN [res |-> HTTPException(400, "Record not found or already returned")]
    ELSE [res |-> [status |-> 0], borrow_id |-> borrow_id,
          book_id |-> rows[borrow_id].book_id,
          book |-> get_book(table, rows[borrow_id].book_id)]

\* lines 147-161
return_book_commit(table, rows, borrow_id, book_id, book) ==
    [books |-> [table EXCEPT ![book_id].available_quantity = book.available_quantity + 1],
     records |-> [rows EXCEPT ![borrow_id].status = "returned"]]

Issuing == {p \in Procs : proc[p].pc = "issue"}

CreateBook(quantity) ==
    /\ Len(books) < MaxBooks
    /\ books' = create_book(books, quantity)
    /\ resp' = [op |-> "create_book", res |-> [status |-> 200, id |-> Len(books) + 1]]
    /\ UNCHANGED <<users, creds, challenges, now, nextJti, nextChallenge, held, proc,
                   lastIssued, accepted, takes, records, leaves>>

IssueBook(p, book_id) ==
    LET out == create_borrow_record(books, book_id)
    IN /\ proc[p].pc = "idle"
       /\ Len(records) + Cardinality(Issuing) < MaxBorrows
       /\ IF out.res.status = 0
          THEN /\ proc' = [proc EXCEPT ![p] = [pc |-> "issue", book_id |-> out.book_id,
                                               book |-> out.book]]
               /\ resp' = [op |-> "issue_pending", res |-> [pending |-> p]]
          ELSE /\ proc' = proc
               /\ resp' = [op |-> "issue", book_id |-> book_id, res |-> out.res]
       /\ UNCHANGED <<users, creds, challenges, now, nextJti, nextChallenge, held,
                      lastIssued, accepted, takes, books, records, leaves>>

IssueCommit(p) ==
    /\ proc[p].pc = "issue"
    /\ LET out == create_borrow_record_commit(books, records, proc[p].book_id, proc[p].book)
       IN /\ books' = out.books
          /\ records' = out.records
          /\ resp' = [op |-> "issue", book_id |-> proc[p].book_id,
                      res |-> [status |-> 200, id |-> Len(out.records)]]
    /\ proc' = [proc EXCEPT ![p] = Idle]
    /\ UNCHANGED <<users, creds, challenges, now, nextJti, nextChallenge, held,
                   lastIssued, accepted, takes, leaves>>

ReturnBook(p, borrow_id) ==
    LET out == return_book(books, records, borrow_id)
    IN /\ proc[p].pc = "idle"
       /\ IF out.res.status = 0
          THEN /\ proc' = [proc EXCEPT ![p] = [pc |-> "return", borrow_id |-> borrow_id,
                                               book_id |-> out.book_id, book |-> out.book]]
               /\ resp' = [op |-> "return_pending", res |-> [pending |-> p]]
          ELSE /\ proc' = proc
               /\ resp' = [op |-> "return", borrow_id |-> borrow_id, res |-> out.res]
       /\ UNCHANGED <<users, creds, challenges, now, nextJti, nextChallenge, held,
                      lastIssued, accepted, takes, books, records, leaves>>

ReturnCommit(p) ==
    /\ proc[p].pc = "return"
    /\ LET out == return_book_commit(books, records, proc[p].borrow_id,
                                     proc[p].book_id, proc[p].book)
       IN /\ books' = out.books
          /\ records' = out.records
          /\ resp' = [op |-> "return", borrow_id |-> proc[p].borrow_id,
                      res |-> [status |-> 200, id |-> proc[p].borrow_id]]
    /\ proc' = [proc EXCEPT ![p] = Idle]
    /\ UNCHANGED <<users, creds, challenges, now, nextJti, nextChallenge, held,
                   lastIssued, accepted, takes, leaves>>

NextLibrary ==
    \/ \E quantity \in Quantities : CreateBook(quantity)
    \/ \E p \in Procs, book_id \in 1..MaxBooks : IssueBook(p, book_id)
    \/ \E p \in Procs : IssueCommit(p)
    \/ \E p \in Procs, borrow_id \in 1..MaxBorrows : ReturnBook(p, borrow_id)
    \/ \E p \in Procs : ReturnCommit(p)

SpecLibrary == InitWith({}, {}) /\ [][NextLibrary]_vars

\* C29: for every book 0 <= available_quantity <= quantity in every
\* reachable state, under any sequence or interleaving of create_book,
\* create_borrow_record and return_book: an issue succeeds only when a copy
\* is available, and a borrow record raises the availability at most once.
C29_AvailabilityInRange ==
    \A b \in DOMAIN books :
        /\ 0 <= books[b].available_quantity
        /\ books[b].available_quantity <= books[b].quantity


(***************************************************************************)
(* Leave applications: POST /leaves/ by a student or a teacher, and        *)
(* PUT /leaves/{leave_id} by staff.  A row's id is its place in the table. *)
(***************************************************************************)
LeaveStatus == {"PENDING", "APPROVED", "REJECTED"}

\* LeaveCreate has no status field, and a field a schema does not declare is
\* dropped from the request
LeaveCreate(body) == [reason |-> body.reason]

\* LeaveUpdate.status is optional
LeaveUpdates == LeaveStatus \cup {None}

create_leave(us, table, token, body, t) ==
    LET cur == get_current_active_user(us, token, t)
        leave == LeaveCreate(body)
    IN IF cur.status # 200 THEN [res |-> cur, leaves |-> table]
       ELSE IF cur.user.kind \notin {"student", "teacher"}
       THEN [res |-> HTTPException(400, "Only Students and Teachers can apply for leave."),
             leaves |-> table]
       ELSE [res |-> [status |-> 200, id |-> Len(table) + 1],
             leaves |-> Append(table,
                 [student_id |-> IF cur.user.kind = "student" THEN cur.user.id ELSE None,
                  teacher_id |-> IF cur.user.kind = "teacher" THEN cur.user.id ELSE None,
                  reason |-> leave.reason,
                  status |-> "PENDING"])]

update_leave(us, table, token, leave_id, status, t) ==
    LET cur == get_current_active_staff(us, token, t)
    IN IF cur.status # 200 THEN [res |-> cur, leaves |-> table]
       ELSE IF leave_id \notin DOMAIN table
       THEN [res |-> HTTPException(404, "Leave not found"), leaves |-> table]
       ELSE IF cur.user.kind = "teacher" /\ table[leave_id].teacher_id # None
       THEN [res |-> HTTPException(403, "Teachers cannot approve other teachers' leaves."),
             leaves |-> table]
       ELSE [res |-> [status |-> 200, id |-> leave_id],
             leaves |-> IF status = None THEN table
                        ELSE [table EXCEPT ![leave_id].status = status]]

CreateLeave(token, body) ==
    LET out == create_leave(users, leaves, token, body, now)
    IN /\ Len(leaves) < MaxLeaves
       /\ leaves' = out.leaves
       /\ resp' = [op |-> "create_leave", by |-> token.payload.sub, res |-> out.res]
       /\ UNCHANGED <<users, creds, challenges, now, nextJti, nextChallenge, held, proc,
                      lastIssued, accepted, takes, books, records>>

UpdateLeave(token, leave_id, status) ==
    LET out == update_leave(users, leaves, token, leave_id, status, now)
    IN /\ leaves' = out.leaves
       /\ resp' = [op |-> "update_leave", by |-> token.payload.sub,
                   leave_id |-> leave_id, status |-> status, res |-> out.res]
       /\ UNCHANGED <<users, creds, challenges, now, nextJti, nextChallenge, held, proc,
                      lastIssued, accepted, takes, books, records>>

LeaveUsers == {u \in InitUsers : u.id \in {"a1", "t1", "s2"}}

Bodies == {[reason |-> "Feeling unwell"],
           [reason |-> "Feeling unwell", status |-> "APPROVED"]}

NextLeaves ==
    \/ \E token \in Bearers(LeaveUsers), body \in Bodies : CreateLeave(token, body)
    \/ \E token \in Bearers(LeaveUsers), leave_id \in 1..MaxLeaves, status \in LeaveUpdates :
           UpdateLeave(token, leave_id, status)

SpecLeaves == InitWith(LeaveUsers, {}) /\ [][NextLeaves]_vars

\* C30: the status of a leave application is PENDING at creation, whatever
\* the request contains, and from then on moves only from PENDING to
\* APPROVED or REJECTED, through update_leave by an administrator or a
\* teacher: a decided leave changes no more and never returns to PENDING.
C30_LeaveStatusMovesForward ==
    [][/\ \A i \in DOMAIN leaves' \ DOMAIN leaves : leaves'[i].status = "PENDING"
       /\ \A i \in DOMAIN leaves :
              leaves'[i].status # leaves[i].status =>
                  /\ leaves[i].status = "PENDING"
                  /\ leaves'[i].status \in {"APPROVED", "REJECTED"}
                  /\ resp'.op = "update_leave"
                  /\ resp'.by \in {"a1", "t1"}]_vars

====
